---- MODULE Spec2Model ----
(***************************************************************************)
(* Model of src/awscloud/MosoInterior.py: the provisioning flow main() and *)
(* the functions it calls, run repeatedly against one AWS account/region   *)
(* and one working directory.                                              *)
(*                                                                         *)
(* Text (the IP-echo body, a CIDR, a key file's content, a CreationDate)   *)
(* is a sequence of one-character strings or digits.  A provider call      *)
(* answers with a record whose field ok tells whether it raised.           *)
(***************************************************************************)
EXTENDS Integers, Sequences, FiniteSets, TLC

(* ---------------------------- bounds ---------------------------------- *)
\* number of sequential runs of main() against the same account
MaxRuns == 2
\* largest timeout_seconds given to wait_for_targets_healthy on its own
MaxTimeout == 20

(* ----------------------- program constants ---------------------------- *)
KEY_NAME == "MosoInterior-key"
KEY_FILE == "MosoInterior-key.pem"
EC2_SG_NAME == "MosoInterior-sg-ec2"
ALB_SG_NAME == "MosoInterior-sg-alb"
HTTP_PORT == 80
SSH_PORT == 22
\* time.sleep(6); elapsed += 6
PollInterval == 6
\* wait_for_targets_healthy(tg_arn, instance_id, timeout_seconds=240)
MainTimeout == 240
\* name_patterns has five entries
NumPatterns == 5
\* os.open(..., 0o600) and os.chmod(..., 0o400), written as their octal digits
ModeOwnerRW == 600
ModeOwnerRO == 400

AnyCidr == <<"0", ".", "0", ".", "0", ".", "0", "/", "0">>
Suffix32 == <<"/", "3", "2">>
Whitespace == {" ", "\n"}

(* ------------------------------ text ---------------------------------- *)
RECURSIVE LStrip(_)
LStrip(s) == IF s # <<>> /\ Head(s) \in Whitespace THEN LStrip(Tail(s)) ELSE s

RECURSIVE RStrip(_)
RStrip(s) ==
    IF s # <<>> /\ s[Len(s)] \in Whitespace
    THEN RStrip(SubSeq(s, 1, Len(s) - 1))
    ELSE s

\* str.strip()
Strip(s) == RStrip(LStrip(s))

Contains(s, c) == \E i \in 1..Len(s) : s[i] = c

(* ------------------------ get_my_public_ip ---------------------------- *)
\* the answers of requests.get(...): a body, or an exception (a timeout)
IpResponses ==
    { [ok |-> FALSE, text |-> <<>>],
      [ok |-> TRUE, text |-> <<"7", "\n">>],
      [ok |-> TRUE, text |-> <<"8", "/", "9", "\n">>] }

\* requests.get has not been called
NoResponse == [ok |-> FALSE, text |-> <<"-">>]

\* PublicIpCidr without the "/32" suffix
PublicIpCidrNoSuffix(resp) == IF resp.ok THEN Strip(resp.text) ELSE AnyCidr

\* the value get_my_public_ip returns for an answer
PublicIpCidr(resp) ==
    IF resp.ok
    THEN LET ip == Strip(resp.text)
         IN  IF ~Contains(ip, "/") THEN ip \o Suffix32 ELSE ip
    ELSE AnyCidr

(* ----------------------- create_security_group ------------------------ *)
\* Ec2IngressRules with SSH opened to everyone instead of the caller
Ec2IngressRulesOpenSsh(cidr) ==
    << [FromPort |-> SSH_PORT, ToPort |-> SSH_PORT, CidrIps |-> <<AnyCidr>>],
       [FromPort |-> HTTP_PORT, ToPort |-> HTTP_PORT, CidrIps |-> <<AnyCidr>>] >>

\* the ingress_rules main() passes for the EC2 group
Ec2IngressRules(cidr) ==
    << [FromPort |-> SSH_PORT, ToPort |-> SSH_PORT, CidrIps |-> <<cidr>>],
       [FromPort |-> HTTP_PORT, ToPort |-> HTTP_PORT, CidrIps |-> <<AnyCidr>>] >>

\* the ingress_rules main() passes for the ALB group
AlbIngressRules ==
    << [FromPort |-> HTTP_PORT, ToPort |-> HTTP_PORT, CidrIps |-> <<AnyCidr>>] >>

\* one entry of IpPermissions built from one rule
Permission(rule) ==
    [ IpProtocol |-> IF "IpProtocol" \in DOMAIN rule THEN rule.IpProtocol ELSE "tcp",
      FromPort |-> rule.FromPort,
      ToPort |-> rule.ToPort,
      IpRanges |-> [i \in 1..Len(rule.CidrIps) |-> [CidrIp |-> rule.CidrIps[i]]] ]

Permissions(ingress_rules) ==
    [i \in 1..Len(ingress_rules) |-> Permission(ingress_rules[i])]

NoGroup == [GroupId |-> 0, IpPermissions |-> <<>>]

(* --------------------- create_keypair_if_not_exists ------------------- *)
NoKey == <<>>
\* the KeyMaterial create_key_pair may return
Materials == { <<"A">>, <<"B", "B", "B">> }
\* a private key left in the working directory by an earlier deployment
StaleContent == <<"X", "X">>
NoFile == [exists |-> FALSE, content |-> <<>>, mode |-> 0]

\* os.open(path, O_WRONLY | O_CREAT, 0o600) raises for an existing file the
\* owner may not write
OpenForWriteFails(file) == file.exists /\ file.mode = ModeOwnerRO

\* f.write(key_material) on a descriptor opened without O_TRUNC, then
\* os.chmod(path, 0o400)
WriteKeyFile(file, key_material) ==
    [ exists |-> TRUE,
      content |-> key_material \o
                  SubSeq(file.content, Len(key_material) + 1, Len(file.content)),
      mode |-> ModeOwnerRO ]

(* -------------------------- find_amzn2023_ami ------------------------- *)
\* str < str on texts of digits: lexicographic, a proper prefix is smaller
RECURSIVE StrLess(_, _)
StrLess(a, b) ==
    IF b = <<>> THEN FALSE
    ELSE IF a = <<>> THEN TRUE
    ELSE IF Head(a) # Head(b) THEN Head(a) < Head(b)
    ELSE StrLess(Tail(a), Tail(b))

\* key=lambda i: i.get('CreationDate','')
SortKey(i) == IF "CreationDate" \in DOMAIN i THEN i.CreationDate ELSE <<>>

\* place x in a list sorted by descending key, after the entries whose key
\* is not smaller (sorted() is stable, also with reverse=True)
RECURSIVE InsertDesc(_, _)
InsertDesc(x, sorted) ==
    IF sorted = <<>> THEN <<x>>
    ELSE IF StrLess(SortKey(Head(sorted)), SortKey(x))
         THEN <<x>> \o sorted
         ELSE <<Head(sorted)>> \o InsertDesc(x, Tail(sorted))

RECURSIVE SortedDesc(_)
\* sorted(images, key=..., reverse=True)
SortedDesc(imgs) ==
    IF imgs = <<>> THEN <<>>
    ELSE InsertDesc(imgs[Len(imgs)], SortedDesc(SubSeq(imgs, 1, Len(imgs) - 1)))

\* LatestImageId without the sort
FirstImageId(imgs) == imgs[1].ImageId

\* ami_id = images[0]['ImageId'] after the sort
LatestImageId(imgs) == SortedDesc(imgs)[1].ImageId

\* images of the public catalog; CreationDate is a fixed-width timestamp text
ImgOld == [ImageId |-> "ami-old", CreationDate |-> <<0, 9>>]
ImgNew == [ImageId |-> "ami-new", CreationDate |-> <<1, 0>>]
ImgTwin == [ImageId |-> "ami-twin", CreationDate |-> <<1, 0>>]
ImgUndated == [ImageId |-> "ami-undated"]

\* the answers of one describe_images call: an exception, or a list of images
AllImageResults ==
    { [ok |-> FALSE, Images |-> <<>>],
      [ok |-> TRUE, Images |-> <<>>],
      [ok |-> TRUE, Images |-> <<ImgOld>>],
      [ok |-> TRUE, Images |-> <<ImgNew>>],
      [ok |-> TRUE, Images |-> <<ImgTwin>>],
      [ok |-> TRUE, Images |-> <<ImgUndated>>],
      [ok |-> TRUE, Images |-> <<ImgOld, ImgNew>>],
      [ok |-> TRUE, Images |-> <<ImgTwin, ImgOld>>] }

\* the answers main() is run with
MainImageResults ==
    { [ok |-> FALSE, Images |-> <<>>],
      [ok |-> TRUE, Images |-> <<>>],
      [ok |-> TRUE, Images |-> <<ImgNew>>] }

\* the answers of ssm.get_parameter
SsmResponses ==
    { [ok |-> FALSE, Value |-> ""], [ok |-> TRUE, Value |-> "ami-al2"] }

(* ---------------------- wait_for_targets_healthy ---------------------- *)
\* the answers of describe_target_health: TargetHealthDescriptions
HealthResponses ==
    { <<>>,
      << [State |-> "initial"] >>,
      << [State |-> "unhealthy"] >>,
      << [State |-> "healthy"] >> }

\* no probe of the current wait has been answered yet
NotProbed == << [State |-> "not probed"] >>

\* LoopContinues with the boundary included
LoopContinuesInclusive(e, t) == e <= t

\* while elapsed < timeout_seconds
LoopContinues(e, t) == e < t

\* if states: state = states[0]...; if state == 'healthy'
ReportsHealthy(states) == states # <<>> /\ states[1].State = "healthy"

(* ------------------------------ state --------------------------------- *)
VARIABLES
    \* the account/region and the working directory, kept between runs
    vpcs,            \* ids of the default VPCs describe_vpcs returns
    subnets,         \* ids of the subnets of the default VPC
    remoteKey,       \* key material of the key pair KEY_NAME, NoKey if none
    keyFile,         \* the file KEY_FILE
    secGroups,       \* group name -> [GroupId, IpPermissions], GroupId 0 if none
    nextGroupId,     \* the id the next create_security_group returns
    created,         \* successful create calls per named resource, all runs
    \* one run of main()
    run,             \* number of the current run
    pc,              \* the statement main() is at
    exitCode,        \* process exit status, read once pc = "exited"
    error,           \* what ended the run
    calls,           \* calls issued in this run, per API
    atStart,         \* the key pair, key file and groups the run started with
    ip_response,     \* the answer of the IP-echo service
    my_ip_cidr, warned, vpc_id, subnet_ids, ec2_sg_id, alb_sg_id,
    ec2_rules,       \* ingress_rules passed for the EC2 group
    pat,             \* index of the name pattern queried next
    images,          \* the pool find_amzn2023_ami collects
    ami_id, instance_id, tg_arn, alb_dns,
    alb_subnets,     \* Subnets passed to create_load_balancer
    registered,      \* Targets passed to register_targets
    timeout_seconds, elapsed, healthy,
    lastStates,      \* the answer to the latest health probe of the wait
    report,          \* the lines printed after the health wait
    lastLine         \* the last line printed, [text, arg]

account == <<vpcs, subnets, remoteKey, keyFile, secGroups, nextGroupId, created>>
network == <<vpcs, subnets>>
keys == <<remoteKey, keyFile>>
groups == <<secGroups, nextGroupId>>
probe == <<ip_response, my_ip_cidr, warned, ec2_rules>>
placement == <<vpc_id, subnet_ids>>
sgids == <<ec2_sg_id, alb_sg_id>>
amivars == <<pat, images, ami_id>>
lbvars == <<instance_id, tg_arn, alb_dns, alb_subnets, registered>>
waitvars == <<timeout_seconds, elapsed, healthy, lastStates>>
vars == <<account, run, atStart, pc, exitCode, error, calls, probe, placement, sgids,
          amivars, lbvars, waitvars, report, lastLine>>

Apis == { "requests.get", "create_key_pair", "create_security_group",
          "authorize_security_group_ingress", "describe_images",
          "get_parameter", "create_instances", "create_target_group",
          "create_load_balancer", "create_listener", "register_targets",
          "describe_target_health" }

Named == {KEY_NAME, EC2_SG_NAME, ALB_SG_NAME}

None == <<>>

\* a printed line: its fixed text and the value formatted into it
Line(text, arg) == [text |-> text, arg |-> arg]

Called(c, api) == [c EXCEPT ![api] = @ + 1]

\* the locals of main() before its first statement
FreshRun ==
    /\ pc = "get_my_public_ip"
    /\ exitCode = 0
    /\ error = "none"
    /\ calls = [a \in Apis |-> 0]
    /\ atStart = [remoteKey |-> remoteKey, keyFile |-> keyFile,
                   secGroups |-> secGroups]
    /\ ip_response = NoResponse
    /\ my_ip_cidr = None /\ warned = FALSE /\ ec2_rules = None
    /\ vpc_id = None /\ subnet_ids = None
    /\ ec2_sg_id = 0 /\ alb_sg_id = 0
    /\ pat = 1 /\ images = <<>> /\ ami_id = ""
    /\ instance_id = None /\ tg_arn = None /\ alb_dns = None
    /\ alb_subnets = None /\ registered = None
    /\ timeout_seconds = 0 /\ elapsed = 0 /\ healthy = FALSE
    /\ lastStates = NotProbed
    /\ report = <<>>
    /\ lastLine = Line("", None)

\* the key pair and the key file a run may find
InitKeys ==
    \/ /\ remoteKey = NoKey
       /\ keyFile \in { NoFile,
                        [exists |-> TRUE, content |-> StaleContent, mode |-> ModeOwnerRO],
                        [exists |-> TRUE, content |-> StaleContent, mode |-> ModeOwnerRW] }
    \/ /\ remoteKey = <<"A">>
       /\ keyFile \in { NoFile,
                        [exists |-> TRUE, content |-> <<"A">>, mode |-> ModeOwnerRO] }

Init ==
    /\ \/ vpcs = <<>> /\ subnets = <<>>
       \/ /\ vpcs = <<"vpc-1">>
          /\ subnets \in { <<>>, <<"subnet-a">>, <<"subnet-a", "subnet-b">> }
    /\ InitKeys
    /\ secGroups = [n \in {EC2_SG_NAME, ALB_SG_NAME} |-> NoGroup]
    /\ nextGroupId = 1
    /\ created = [n \in Named |-> 0]
    /\ run = 1
    /\ FreshRun

\* raise SystemExit(message), an uncaught exception, or sys.exit(1)
Exit(code, why, line) ==
    /\ pc' = "exited"
    /\ exitCode' = code
    /\ error' = why
    /\ lastLine' = Line(line, None)

(* --------------------------- main(): probing --------------------------- *)
\* my_ip_cidr = get_my_public_ip()
GetMyPublicIp ==
    /\ pc = "get_my_public_ip"
    /\ \E resp \in IpResponses :
          /\ ip_response' = resp
          /\ my_ip_cidr' = PublicIpCidr(resp)
          /\ warned' = ~resp.ok
          /\ lastLine' = IF resp.ok
                         THEN Line("Detected public IP for SSH rule:",
                                   PublicIpCidr(resp))
                         ELSE Line("Defaulting SSH CIDR to 0.0.0.0/0 (NOT recommended).",
                                   None)
    /\ calls' = Called(calls, "requests.get")
    /\ pc' = "get_default_vpc"
    /\ UNCHANGED <<account, run, atStart, exitCode, error, ec2_rules, placement,
                   sgids, amivars, lbvars, waitvars, report>>

\* vpc_id = get_default_vpc()
GetDefaultVpc ==
    /\ pc = "get_default_vpc"
    /\ IF vpcs = <<>>
       THEN /\ Exit(1, "no default vpc", "No default VPC found in region.")
            /\ UNCHANGED vpc_id
       ELSE /\ vpc_id' = vpcs[1]
            /\ pc' = "get_subnets_for_vpc"
            /\ lastLine' = Line("Default VPC:", None)
            /\ UNCHANGED <<exitCode, error>>
    /\ UNCHANGED <<account, run, atStart, calls, probe, subnet_ids, sgids, amivars,
                   lbvars, waitvars, report>>

\* subnets = get_subnets_for_vpc(vpc_id); subnet_ids = [...]
GetSubnetsForVpc ==
    /\ pc = "get_subnets_for_vpc"
    /\ IF subnets = <<>>
       THEN /\ Exit(1, "no subnets", "No subnets found in default VPC.")
            /\ UNCHANGED subnet_ids
       ELSE /\ subnet_ids' = subnets
            /\ pc' = "create_keypair"
            /\ lastLine' = Line("Found subnets in default VPC:", None)
            /\ UNCHANGED <<exitCode, error>>
    /\ UNCHANGED <<account, run, atStart, calls, probe, vpc_id, sgids, amivars, lbvars,
                   waitvars, report>>

(* --------------------------- main(): key pair -------------------------- *)
\* KeyPairFound with a lookup that always answers InvalidKeyPair.NotFound
KeyPairNeverFound(remote) == FALSE

\* describe_key_pairs(KeyNames=[key_name]) returns instead of raising
\* InvalidKeyPair.NotFound
KeyPairFound(remote) == remote # NoKey

\* create_keypair_if_not_exists(KEY_NAME, KEY_FILE)
CreateKeypairIfNotExists ==
    /\ pc = "create_keypair"
    /\ \/ \* describe_key_pairs raises another ClientError: re-raised
          /\ Exit(1, "key lookup", "Traceback")
          /\ UNCHANGED <<keys, created, calls>>
       \/ \* the key pair exists: reuse, whether or not the file is there
          /\ KeyPairFound(remoteKey)
          /\ pc' = "create_ec2_sg"
          /\ lastLine' = IF keyFile.exists
                         THEN Line("Local key already exists - reusing it.", None)
                         ELSE Line("Local key file not found.", None)
          /\ UNCHANGED <<keys, created, calls, exitCode, error>>
       \/ \* InvalidKeyPair.NotFound: create it and save the private key
          /\ ~KeyPairFound(remoteKey)
          /\ \E key_material \in Materials :
                /\ remoteKey' = key_material
                /\ IF OpenForWriteFails(keyFile)
                   THEN /\ Exit(1, "key file", "Traceback")
                        /\ UNCHANGED keyFile
                   ELSE /\ keyFile' = WriteKeyFile(keyFile, key_material)
                        /\ pc' = "create_ec2_sg"
                        /\ lastLine' = Line("Saved key (chmod 400)", None)
                        /\ UNCHANGED <<exitCode, error>>
          /\ created' = Called(created, KEY_NAME)
          /\ calls' = Called(calls, "create_key_pair")
    /\ UNCHANGED <<network, groups, run, atStart, probe, placement, sgids, amivars,
                   lbvars, waitvars, report>>

(* ------------------------ main(): security groups ---------------------- *)
\* GroupFound with a lookup that matches nothing
GroupNeverFound(sgs, group_name) == FALSE

\* existing.get('SecurityGroups') is non-empty
GroupFound(sgs, group_name) == sgs[group_name].GroupId # 0

\* the account after create_security_group(...) and, when authorized, after
\* authorize_security_group_ingress(GroupId=sg_id, IpPermissions=permissions)
GroupsAfterCreate(sgs, group_name, sg_id, ingress_rules, authorized) ==
    [sgs EXCEPT ![group_name] =
        [ GroupId |-> sg_id,
          IpPermissions |-> IF authorized THEN Permissions(ingress_rules)
                            ELSE <<>> ]]

\* the calls create_security_group(vpc_id, group_name, ...) issues and its
\* effect on the account; ret is the id it returns, 0 when it raises
CreateSecurityGroup(group_name, ingress_rules, ret, authorized) ==
    IF GroupFound(secGroups, group_name)
    THEN /\ ret = secGroups[group_name].GroupId
         /\ authorized
         /\ UNCHANGED <<groups, created, calls>>
    ELSE /\ secGroups' = GroupsAfterCreate(secGroups, group_name, nextGroupId,
                                           ingress_rules, authorized)
         /\ nextGroupId' = nextGroupId + 1
         /\ created' = Called(created, group_name)
         /\ calls' = Called(Called(calls, "create_security_group"),
                            "authorize_security_group_ingress")
         /\ ret = IF authorized THEN nextGroupId ELSE 0

\* ec2_sg_id = create_security_group(vpc_id, EC2_SG_NAME, ..., ingress_rules=[...])
CreateEc2SecurityGroup ==
    /\ pc = "create_ec2_sg"
    /\ ec2_rules' = Ec2IngressRules(my_ip_cidr)
    /\ \E ret \in 0..nextGroupId, authorized \in BOOLEAN :
          /\ CreateSecurityGroup(EC2_SG_NAME, Ec2IngressRules(my_ip_cidr), ret,
                                 authorized)
          /\ IF authorized
             THEN /\ ec2_sg_id' = ret
                  /\ pc' = "create_alb_sg"
                  /\ lastLine' = Line("EC2 SG ID:", None)
                  /\ UNCHANGED <<exitCode, error>>
             ELSE /\ Exit(1, "authorize ingress", "Traceback")
                  /\ UNCHANGED ec2_sg_id
    /\ UNCHANGED <<network, keys, run, atStart, ip_response, my_ip_cidr, warned,
                   placement, alb_sg_id, amivars, lbvars, waitvars, report>>

\* alb_sg_id = create_security_group(vpc_id, ALB_SG_NAME, ..., ingress_rules=[...])
CreateAlbSecurityGroup ==
    /\ pc = "create_alb_sg"
    /\ \E ret \in 0..nextGroupId, authorized \in BOOLEAN :
          /\ CreateSecurityGroup(ALB_SG_NAME, AlbIngressRules, ret, authorized)
          /\ IF authorized
             THEN /\ alb_sg_id' = ret
                  /\ pc' = "find_ami"
                  /\ lastLine' = Line("ALB SG ID:", None)
                  /\ UNCHANGED <<exitCode, error>>
             ELSE /\ Exit(1, "authorize ingress", "Traceback")
                  /\ UNCHANGED alb_sg_id
    /\ UNCHANGED <<network, keys, run, atStart, probe, placement, ec2_sg_id, amivars,
                   lbvars, waitvars, report>>

(* ------------------------ main(): find_amzn2023_ami -------------------- *)
\* one turn of "for pat in name_patterns": a query that raises adds nothing
DescribeImages(Results) ==
    /\ pc = "find_ami"
    /\ pat <= NumPatterns
    /\ \E resp \in Results :
          images' = IF resp.ok THEN images \o resp.Images ELSE images
    /\ pat' = pat + 1
    /\ calls' = Called(calls, "describe_images")
    /\ UNCHANGED <<account, run, atStart, pc, exitCode, error, probe, placement, sgids,
                   ami_id, lbvars, waitvars, report, lastLine>>

\* NeedsFallback with a condition that always takes the fallback
AlwaysFallback(imgs) == TRUE

\* if not images
NeedsFallback(imgs) == imgs = <<>>

\* the rest of find_amzn2023_ami: the SSM fallback, or the newest of the pool
PickAmi ==
    /\ pc = "find_ami"
    /\ pat > NumPatterns
    /\ IF NeedsFallback(images)
       THEN /\ calls' = Called(calls, "get_parameter")
            /\ \E param \in SsmResponses :
                  IF param.ok
                  THEN /\ ami_id' = param.Value
                       /\ pc' = "launch"
                       /\ lastLine' = Line("Using AMI:", param.Value)
                       /\ UNCHANGED <<exitCode, error>>
                  ELSE /\ Exit(1, "no ami", "Failed to find AL2023 or fallback AMI.")
                       /\ UNCHANGED ami_id
       ELSE /\ ami_id' = LatestImageId(images)
            /\ pc' = "launch"
            /\ lastLine' = Line("Using AMI:", LatestImageId(images))
            /\ UNCHANGED <<calls, exitCode, error>>
    /\ UNCHANGED <<account, run, atStart, probe, placement, sgids, pat, images, lbvars,
                   waitvars, report>>

(* --------------------------- main(): the instance ---------------------- *)
\* LaunchFailed with sys.exit(0)
LaunchFailedExitZero(outcome) == Exit(0, outcome, "Failed to create instance:")

\* LaunchFailed without the sys.exit: main() goes on after the handler
LaunchFailedNoExit(outcome) ==
    /\ pc' = "create_target_group"
    /\ error' = outcome
    /\ lastLine' = Line("Failed to create instance:", None)
    /\ UNCHANGED exitCode

\* except Exception as e: print("Failed to create instance:", e); sys.exit(1)
LaunchFailed(outcome) == Exit(1, outcome, "Failed to create instance:")

\* ec2.create_instances(...), inst.wait_until_running(), inst.reload()
LaunchInstance ==
    /\ pc = "launch"
    /\ calls' = Called(calls, "create_instances")
    /\ \E outcome \in {"running", "create_instances raises",
                       "wait_until_running raises"} :
          IF outcome = "running"
          THEN /\ instance_id' = <<"i", run>>
               /\ pc' = "create_target_group"
               /\ lastLine' = Line("Instance running.", None)
               /\ UNCHANGED <<exitCode, error>>
          ELSE /\ LaunchFailed(outcome)
               /\ UNCHANGED instance_id
    \* the pool is a local of find_amzn2023_ami
    /\ images' = <<>>
    /\ UNCHANGED <<account, run, atStart, probe, placement, sgids, pat, ami_id, tg_arn,
                   alb_dns, alb_subnets, registered, waitvars, report>>

(* ------------------------- main(): load balancing ---------------------- *)
\* tg_arn = create_target_group(TG_NAME, vpc_id, port=HTTP_PORT)
CreateTargetGroup ==
    /\ pc = "create_target_group"
    /\ calls' = Called(calls, "create_target_group")
    /\ tg_arn' = <<"tg", run>>
    /\ pc' = "create_alb"
    /\ lastLine' = Line("Target group ARN:", <<"tg", run>>)
    /\ UNCHANGED <<account, run, atStart, exitCode, error, probe, placement, sgids,
                   amivars, instance_id, alb_dns, alb_subnets, registered,
                   waitvars, report>>

\* alb_arn, alb_dns = create_alb(ALB_NAME, subnet_ids, alb_sg_id)
CreateAlb ==
    /\ pc = "create_alb"
    /\ calls' = Called(calls, "create_load_balancer")
    /\ alb_subnets' = subnet_ids
    /\ alb_dns' = <<"dns", run>>
    /\ pc' = "create_listener"
    /\ lastLine' = Line("ALB DNS:", <<"dns", run>>)
    /\ UNCHANGED <<account, run, atStart, exitCode, error, probe, placement, sgids,
                   amivars, instance_id, tg_arn, registered, waitvars, report>>

\* listener_arn = create_listener(alb_arn, tg_arn, port=HTTP_PORT)
CreateListener ==
    /\ pc = "create_listener"
    /\ calls' = Called(calls, "create_listener")
    /\ pc' = "register_targets"
    /\ lastLine' = Line("Listener ARN:", None)
    /\ UNCHANGED <<account, run, atStart, exitCode, error, probe, placement, sgids,
                   amivars, lbvars, waitvars, report>>

\* register_targets(tg_arn, instance_id, port=HTTP_PORT), then the call of
\* wait_for_targets_healthy(tg_arn, instance_id, timeout_seconds=240)
RegisterTargets ==
    /\ pc = "register_targets"
    /\ calls' = Called(calls, "register_targets")
    /\ registered' = <<tg_arn, instance_id>>
    /\ pc' = "wait_healthy"
    /\ timeout_seconds' = MainTimeout
    /\ elapsed' = 0
    /\ lastLine' = Line("Waiting for target to become healthy (may take a minute)...",
                        None)
    /\ UNCHANGED <<account, run, atStart, exitCode, error, probe, placement, sgids,
                   amivars, instance_id, tg_arn, alb_dns, alb_subnets, healthy,
                   lastStates, report>>

(* --------------------- main(): wait_for_targets_healthy ---------------- *)
\* one turn of the while loop: a probe, then return True or sleep
ProbeHealth ==
    /\ pc = "wait_healthy"
    /\ LoopContinues(elapsed, timeout_seconds)
    /\ calls' = Called(calls, "describe_target_health")
    /\ \E states \in HealthResponses :
          /\ lastStates' = states
          /\ IF ReportsHealthy(states)
             THEN /\ healthy' = TRUE
                  /\ pc' = "report"
                  /\ lastLine' = Line("Target state:", "healthy")
                  /\ UNCHANGED elapsed
             ELSE /\ elapsed' = elapsed + PollInterval
                  /\ lastLine' = IF states = <<>> THEN lastLine
                                 ELSE Line("Target state:", states[1].State)
                  /\ UNCHANGED <<healthy, pc>>
    /\ UNCHANGED <<account, run, atStart, exitCode, error, probe, placement, sgids,
                   amivars, lbvars, timeout_seconds, report>>

\* the loop condition fails: return False
WaitTimesOut ==
    /\ pc = "wait_healthy"
    /\ ~LoopContinues(elapsed, timeout_seconds)
    /\ healthy' = FALSE
    /\ pc' = "report"
    /\ lastLine' = Line("Timeout waiting for healthy target.", None)
    /\ UNCHANGED <<account, run, atStart, exitCode, error, calls, probe, placement,
                   sgids, amivars, lbvars, timeout_seconds, elapsed,
                   lastStates, report>>

(* ----------------------------- main(): report -------------------------- *)
\* the lines main() prints after the wait
ReportLines(is_healthy, dns, tg, inst, ec2_sg, alb_sg) ==
    (IF is_healthy THEN <<>>
     ELSE << Line("Target didn't become healthy yet - it may still work.", None) >>)
    \o << Line("=== SUCCESS ===", None),
          Line("ALB DNS Name / Endpoint: http://", dns),
          Line("ALB will forward to target group:", tg),
          Line("EC2 instance ID:", inst),
          Line("EC2 security group:", <<ec2_sg>>),
          Line("ALB security group:", <<alb_sg>>),
          Line("Key pair name:", KEY_NAME),
          Line("If you need to SSH: ssh -i", KEY_FILE),
          Line("Remember to clean up resources when done", None) >>

\* main() returns: the interpreter exits with status 0
Report ==
    /\ pc = "report"
    /\ report' = ReportLines(healthy, alb_dns, tg_arn, instance_id, ec2_sg_id,
                             alb_sg_id)
    /\ lastLine' = report'[Len(report')]
    /\ pc' = "exited"
    /\ exitCode' = 0
    /\ error' = "none"
    /\ UNCHANGED <<account, run, atStart, calls, probe, placement, sgids, amivars,
                   lbvars, waitvars>>

(* ------------------------------ the next run --------------------------- *)
\* the script is started again in the same account and directory
StartRun ==
    /\ pc = "exited"
    /\ run < MaxRuns
    /\ run' = run + 1
    /\ pc' = "get_my_public_ip"
    /\ exitCode' = 0
    /\ error' = "none"
    /\ calls' = [a \in Apis |-> 0]
    /\ atStart' = [remoteKey |-> remoteKey, keyFile |-> keyFile,
                    secGroups |-> secGroups]
    /\ ip_response' = NoResponse
    /\ my_ip_cidr' = None /\ warned' = FALSE /\ ec2_rules' = None
    /\ vpc_id' = None /\ subnet_ids' = None
    /\ ec2_sg_id' = 0 /\ alb_sg_id' = 0
    /\ pat' = 1 /\ images' = <<>> /\ ami_id' = ""
    /\ instance_id' = None /\ tg_arn' = None /\ alb_dns' = None
    /\ alb_subnets' = None /\ registered' = None
    /\ timeout_seconds' = 0 /\ elapsed' = 0 /\ healthy' = FALSE
    /\ lastStates' = NotProbed
    /\ report' = <<>>
    /\ lastLine' = Line("", None)
    /\ UNCHANGED account

(* --------------------------- specifications ---------------------------- *)
\* runs of main()
Next ==
    \/ GetMyPublicIp
    \/ GetDefaultVpc
    \/ GetSubnetsForVpc
    \/ CreateKeypairIfNotExists
    \/ CreateEc2SecurityGroup
    \/ CreateAlbSecurityGroup
    \/ DescribeImages(MainImageResults)
    \/ PickAmi
    \/ LaunchInstance
    \/ CreateTargetGroup
    \/ CreateAlb
    \/ CreateListener
    \/ RegisterTargets
    \/ ProbeHealth
    \/ WaitTimesOut
    \/ Report
    \/ StartRun

Spec == Init /\ [][Next]_vars

(* ----------------- the functions taken on their own -------------------- *)
\* a run of main() that took the fallback CIDR, found nothing in the account
\* and has created the key pair and both groups
AfterSecurityGroups ==
    /\ vpcs = <<"vpc-1">>
    /\ subnets = <<"subnet-a", "subnet-b">>
    /\ remoteKey = <<"A">>
    /\ keyFile = WriteKeyFile(NoFile, <<"A">>)
    /\ secGroups = GroupsAfterCreate(
                      GroupsAfterCreate(
                          [n \in {EC2_SG_NAME, ALB_SG_NAME} |-> NoGroup],
                          EC2_SG_NAME, 1, Ec2IngressRules(AnyCidr), TRUE),
                      ALB_SG_NAME, 2, AlbIngressRules, TRUE)
    /\ nextGroupId = 3
    /\ created = [n \in Named |-> 1]
    /\ run = 1
    /\ atStart = [remoteKey |-> NoKey, keyFile |-> NoFile,
                  secGroups |-> [n \in {EC2_SG_NAME, ALB_SG_NAME} |-> NoGroup]]
    /\ exitCode = 0
    /\ error = "none"
    /\ ip_response = [ok |-> FALSE, text |-> <<>>]
    /\ my_ip_cidr = AnyCidr /\ warned = TRUE
    /\ ec2_rules = Ec2IngressRules(AnyCidr)
    /\ vpc_id = "vpc-1" /\ subnet_ids = <<"subnet-a", "subnet-b">>
    /\ ec2_sg_id = 1 /\ alb_sg_id = 2
    /\ report = <<>>

\* find_amzn2023_ami() is entered
InitAmi ==
    /\ AfterSecurityGroups
    /\ pc = "find_ami"
    /\ calls = [a \in Apis |->
                   IF a \in {"requests.get", "create_key_pair"} THEN 1
                   ELSE IF a \in {"create_security_group",
                                  "authorize_security_group_ingress"} THEN 2
                   ELSE 0]
    /\ pat = 1 /\ images = <<>> /\ ami_id = ""
    /\ instance_id = None /\ tg_arn = None /\ alb_dns = None
    /\ alb_subnets = None /\ registered = None
    /\ timeout_seconds = 0 /\ elapsed = 0 /\ healthy = FALSE
    /\ lastStates = NotProbed
    /\ lastLine = Line("ALB SG ID:", None)

NextAmi == DescribeImages(AllImageResults) \/ PickAmi

\* find_amzn2023_ami for every answer of the image catalog
SpecAmi == InitAmi /\ [][NextAmi]_vars

\* wait_for_targets_healthy(tg_arn, instance_id, timeout_seconds) is entered
InitWait ==
    /\ AfterSecurityGroups
    /\ pc = "wait_healthy"
    /\ calls = [a \in Apis |->
                   IF a = "describe_target_health" THEN 0
                   ELSE IF a = "describe_images" THEN NumPatterns
                   ELSE IF a \in {"create_security_group",
                                  "authorize_security_group_ingress"} THEN 2
                   ELSE 1]
    /\ pat = NumPatterns + 1 /\ images = <<>> /\ ami_id = "ami-al2"
    /\ instance_id = <<"i", 1>> /\ tg_arn = <<"tg", 1>>
    /\ alb_dns = <<"dns", 1>>
    /\ alb_subnets = <<"subnet-a", "subnet-b">>
    /\ registered = << <<"tg", 1>>, <<"i", 1>> >>
    /\ timeout_seconds \in 0..MaxTimeout
    /\ elapsed = 0 /\ healthy = FALSE
    /\ lastStates = NotProbed
    /\ lastLine = Line("Waiting for target to become healthy (may take a minute)...",
                       None)

NextWait == ProbeHealth \/ WaitTimesOut

\* wait_for_targets_healthy for every timeout and every sequence of answers;
\* the one thread of the script keeps running while the loop has a step to take
SpecWait == InitWait /\ [][NextWait]_vars /\ WF_vars(NextWait)

(* ------------------------------ claims --------------------------------- *)
GroupNames == {EC2_SG_NAME, ALB_SG_NAME}

\* the ways a call can end a run early that a fault of the environment causes
Faults == { "key lookup", "key file", "authorize ingress", "no ami",
            "create_instances raises", "wait_until_running raises" }

\* a printed line that carries the load balancer's DNS name
LineHasDns(l) ==
    /\ l.text \in {"ALB DNS Name / Endpoint: http://", "ALB DNS:"}
    /\ l.arg = alb_dns

TcpFrom(port, cidr) ==
    [IpProtocol |-> "tcp", FromPort |-> port, ToPort |-> port,
     IpRanges |-> << [CidrIp |-> cidr] >>]

\* a run has ended that started with a default network of two subnets, no key
\* pair and no security group, and in which no call raised
C1Scenario ==
    /\ pc = "exited"
    /\ error \notin Faults
    /\ vpcs # <<>> /\ Len(subnets) = 2
    /\ atStart.remoteKey = NoKey
    /\ \A n \in GroupNames : atStart.secGroups[n].GroupId = 0

C1Effects ==
    /\ error = "none" /\ exitCode = 0
    /\ calls["create_key_pair"] = 1
    /\ calls["create_security_group"] = 2
    /\ secGroups[EC2_SG_NAME].IpPermissions =
          << TcpFrom(22, my_ip_cidr), TcpFrom(80, AnyCidr) >>
    /\ secGroups[ALB_SG_NAME].IpPermissions = << TcpFrom(80, AnyCidr) >>
    /\ calls["create_instances"] = 1
    /\ calls["create_target_group"] = 1
    /\ calls["create_load_balancer"] = 1
    /\ alb_subnets = subnets
    /\ calls["create_listener"] = 1
    /\ calls["register_targets"] = 1
    /\ instance_id # None /\ registered = <<tg_arn, instance_id>>

\* C1 as stated: in the end-to-end scenario the flow issues one create-key-pair,
\* two create-security-group (with the documented rules), one launch, one
\* target group, one load balancer over both subnets, one listener and one
\* registration, and the final line printed contains the DNS name.
C1_Original == C1Scenario => (C1Effects /\ LineHasDns(lastLine))

\* C1 amended: the same calls and rules; a line of the closing report carries
\* the load balancer's DNS name, and the final line printed is the clean-up
\* reminder, which does not.
C1_EndToEnd ==
    C1Scenario =>
        /\ C1Effects
        /\ \E i \in DOMAIN report : LineHasDns(report[i])
        /\ lastLine = report[Len(report)]
        /\ lastLine.text = "Remember to clean up resources when done"
        /\ ~LineHasDns(lastLine)

C1_Witness == C1Scenario /\ ip_response.ok /\ run = 1

\* C2: over all runs, aborted ones included, at most one create call succeeds
\* for the key pair and for each of the two security groups.
C2_CreatedAtMostOnce == \A n \in Named : created[n] <= 1

\* a second run after a first one that died authorizing the EC2 group's rules
C2_Witness ==
    /\ run = 2 /\ pc = "find_ami"
    /\ \A n \in Named : created[n] = 1
    /\ atStart.secGroups[EC2_SG_NAME].GroupId # 0
    /\ atStart.secGroups[EC2_SG_NAME].IpPermissions = <<>>
    /\ atStart.remoteKey # NoKey
    /\ calls["create_key_pair"] = 0

\* C3: when the key pair exists remotely and the key file is present at the
\* start of a run, create_keypair_if_not_exists issues no create-key-pair call
\* and leaves the file's content and mode (and the remote key) as they were.
C3_KeypairReuse ==
    (atStart.remoteKey # NoKey /\ atStart.keyFile.exists) =>
        /\ calls["create_key_pair"] = 0
        /\ keyFile.exists
        /\ keyFile.content = atStart.keyFile.content
        /\ keyFile.mode = atStart.keyFile.mode
        /\ remoteKey = atStart.remoteKey

\* the function has returned in a run that found both the key pair and the file
C3_Witness ==
    /\ pc = "create_ec2_sg"
    /\ atStart.remoteKey # NoKey
    /\ atStart.keyFile.exists

\* C4: a call of create_security_group for a name whose group exists issues no
\* create-security-group and no authorize-ingress call, changes no group and
\* returns the existing group's id.
C4_GroupReuse ==
    [][ /\ (pc = "create_ec2_sg" /\ secGroups[EC2_SG_NAME].GroupId # 0) =>
              /\ calls' = calls
              /\ secGroups' = secGroups
              /\ pc' = "create_alb_sg"
              /\ ec2_sg_id' = secGroups[EC2_SG_NAME].GroupId
        /\ (pc = "create_alb_sg" /\ secGroups[ALB_SG_NAME].GroupId # 0) =>
              /\ calls' = calls
              /\ secGroups' = secGroups
              /\ pc' = "find_ami"
              /\ alb_sg_id' = secGroups[ALB_SG_NAME].GroupId ]_vars

\* both calls of a run have returned the ids of groups an earlier run created
C4_Witness ==
    /\ pc = "find_ami"
    /\ \A n \in GroupNames : atStart.secGroups[n].GroupId # 0
    /\ ec2_sg_id = atStart.secGroups[EC2_SG_NAME].GroupId
    /\ alb_sg_id = atStart.secGroups[ALB_SG_NAME].GroupId
    /\ calls["create_security_group"] = 0
    /\ calls["authorize_security_group_ingress"] = 0

Dated(img) == "CreationDate" \in DOMAIN img

\* the instant a fixed-width CreationDate text denotes
TimeOf(img) == 10 * img.CreationDate[1] + img.CreationDate[2]

\* C5: for a non-empty pool collected over all name patterns, the image id
\* find_amzn2023_ami returns is that of a pooled image whose creation time is
\* the maximum over the pool's dated images.
C5_LatestImage ==
    (pc = "launch" /\ images # <<>>) =>
        \E i \in DOMAIN images :
            /\ images[i].ImageId = ami_id
            /\ \A j \in DOMAIN images :
                  Dated(images[j]) =>
                      /\ Dated(images[i])
                      /\ TimeOf(images[j]) <= TimeOf(images[i])

\* the newest image came from a later pattern than an older one
C5_Witness ==
    /\ pc = "launch"
    /\ Len(images) >= 3
    /\ images[1] = ImgOld
    /\ images[Len(images)] = ImgUndated
    /\ ami_id = "ami-new"

\* C6: when every name pattern yields no image the parameter store is asked
\* exactly once; its value becomes the image id, or, if it raises, the run
\* ends with an error before any instance is launched.  When a pattern
\* yields an image the parameter store is never asked.
C6_Fallback ==
    /\ calls["get_parameter"] <= 1
    /\ (pc = "launch" /\ images = <<>>) =>
          /\ calls["describe_images"] = 5
          /\ calls["get_parameter"] = 1
          /\ ami_id = "ami-al2"
    /\ (pc \in {"find_ami", "launch"} /\ images # <<>>) =>
          calls["get_parameter"] = 0
    /\ error = "no ami" =>
          /\ pc = "exited" /\ exitCode # 0
          /\ images = <<>>
          /\ calls["describe_images"] = 5
          /\ calls["get_parameter"] = 1
          /\ calls["create_instances"] = 0
          /\ instance_id = None

\* the parameter store raised after five empty or failed queries
C6_Witness == error = "no ami" /\ pc = "exited" /\ calls["get_parameter"] = 1

Probes == calls["describe_target_health"]
HealthyReported == lastStates = << [State |-> "healthy"] >>

\* what holds of the wait loop at every moment
WaitSafety ==
    /\ Probes <= (timeout_seconds + 5) \div 6
    /\ Probes > 0 => 6 * (Probes - 1) < timeout_seconds
    /\ pc = "wait_healthy" =>
          /\ ~HealthyReported
          /\ elapsed = 6 * Probes
          /\ elapsed < timeout_seconds + 6
          /\ ENABLED NextWait
          /\ elapsed >= timeout_seconds => ~ENABLED ProbeHealth
    /\ pc = "report" =>
          /\ healthy <=> HealthyReported
          /\ healthy => elapsed = 6 * (Probes - 1)
          /\ ~healthy => (elapsed = 6 * Probes /\ elapsed >= timeout_seconds)
    /\ (Probes > 0 /\ lastStates = <<>>) => (~healthy /\ elapsed > 0)

\* C7: the wait loop ends; it returns true at the first probe reporting
\* healthy and probes no more; it returns false when no probe issued while
\* elapsed < timeout reported healthy; elapsed grows by 6 per unsuccessful
\* probe, no probe is issued once elapsed >= timeout, so at most
\* ceil(timeout/6) probes are made; an empty answer counts as not healthy.
C7_WaitHealthy == []WaitSafety /\ <>(pc = "report")

\* the loop ended at elapsed = timeout after a last, empty answer
C7_Witness ==
    /\ pc = "report" /\ ~healthy
    /\ timeout_seconds = 18 /\ elapsed = 18
    /\ Probes = 3
    /\ lastStates = <<>>

NotSpace(c) == c \notin {" ", "\n"}

\* C8: a failed public-IP lookup gives "0.0.0.0/0" with a warning and without
\* a second lookup, and the SSH rule passed for the EC2 group then has that
\* CIDR; a lookup answering a bare address gives the address plus "/32".
C8_PublicIp ==
    /\ calls["requests.get"] <= 1
    /\ my_ip_cidr # None =>
          /\ calls["requests.get"] = 1
          /\ ~ip_response.ok =>
                (warned /\ my_ip_cidr = <<"0", ".", "0", ".", "0", ".", "0", "/", "0">>)
          /\ (ip_response.ok /\ ~Contains(ip_response.text, "/")) =>
                /\ ~warned
                /\ my_ip_cidr = SelectSeq(ip_response.text, NotSpace) \o <<"/", "3", "2">>
    /\ ec2_rules # None =>
          /\ ec2_rules[1].FromPort = 22 /\ ec2_rules[1].ToPort = 22
          /\ ec2_rules[1].CidrIps = <<my_ip_cidr>>

\* the lookup failed and the run went on to pass the rules for the EC2 group
C8_Witness ==
    /\ ~ip_response.ok /\ warned
    /\ pc = "create_alb_sg"
    /\ ec2_rules # None
    /\ secGroups[EC2_SG_NAME].IpPermissions[1].IpRanges = << [CidrIp |-> AnyCidr] >>

HasLine(text) == \E i \in DOMAIN report : report[i].text = text

\* C9: the exit status is 0 whenever the closing report is printed, also when
\* the health wait returned false (then the advisory, the success banner and
\* the endpoint are all printed); it is 1 when the launch or the wait for
\* running raised.
C9_ExitStatus ==
    /\ (pc = "exited" /\ registered # None) =>
          /\ exitCode = 0
          /\ HasLine("=== SUCCESS ===")
          /\ \E i \in DOMAIN report : LineHasDns(report[i])
          /\ ~healthy =>
                report[1].text = "Target didn't become healthy yet - it may still work."
    /\ report # <<>> => (pc = "exited" /\ exitCode = 0)
    /\ error \in {"create_instances raises", "wait_until_running raises"} =>
          (pc = "exited" /\ exitCode = 1 /\ report = <<>>)

\* a run ended with status 0 after the health wait timed out
C9_Witness ==
    /\ pc = "exited" /\ exitCode = 0
    /\ ~healthy /\ elapsed >= 240
    /\ report # <<>>

CreateApis == { "create_key_pair", "create_security_group", "create_instances",
                "create_target_group", "create_load_balancer", "create_listener" }

\* C10: without a default network or without subnets the run ends before any
\* create call; when the launch or the wait for running raises, no target
\* group, load balancer, listener or registration follows, and the key pair
\* and the groups of the account are left as they are; nothing is deleted.
C10_FatalHalts ==
    /\ (vpcs = <<>> \/ subnets = <<>>) =>
          /\ \A a \in CreateApis : calls[a] = 0
          /\ remoteKey = atStart.remoteKey /\ secGroups = atStart.secGroups
          /\ pc \in {"get_my_public_ip", "get_default_vpc", "get_subnets_for_vpc",
                     "exited"}
    /\ error \in {"no default vpc", "no subnets"} =>
          (pc = "exited" /\ exitCode # 0 /\ (vpcs = <<>> \/ subnets = <<>>))
    /\ error \in {"create_instances raises", "wait_until_running raises"} =>
          /\ pc = "exited"
          /\ calls["create_target_group"] = 0
          /\ calls["create_load_balancer"] = 0
          /\ calls["create_listener"] = 0
          /\ calls["register_targets"] = 0
          /\ tg_arn = None /\ alb_dns = None /\ registered = None
          /\ remoteKey # NoKey
          /\ secGroups[EC2_SG_NAME].GroupId = ec2_sg_id /\ ec2_sg_id # 0
          /\ secGroups[ALB_SG_NAME].GroupId = alb_sg_id /\ alb_sg_id # 0
    /\ atStart.remoteKey # NoKey => remoteKey = atStart.remoteKey
    /\ \A n \in GroupNames :
          atStart.secGroups[n].GroupId # 0 =>
              secGroups[n].GroupId = atStart.secGroups[n].GroupId

\* the wait for running raised in the run that created the key pair and groups
C10_Witness ==
    /\ error = "wait_until_running raises"
    /\ calls["create_key_pair"] = 1
    /\ calls["create_security_group"] = 2
    /\ remoteKey # NoKey
    /\ \A n \in GroupNames : secGroups[n].GroupId # 0

\* C11: once create_keypair_if_not_exists has created the remote key pair,
\* whatever was at the key path before (nothing, or a file of an earlier
\* deployment, read-only and/or longer than the new key), the key file holds
\* exactly the key material that create call returned, with owner-read-only
\* mode; the remote key pair this script created never exists with a key
\* file that holds other material or none.
C11_KeyPersisted ==
    (created[KEY_NAME] = 1 /\ remoteKey # NoKey) =>
        /\ keyFile.exists
        /\ keyFile.content = remoteKey
        /\ keyFile.mode = 400

\* C12: the security group a run attaches to the instance it launches carries
\* exactly the rules that run asked for, SSH from the CIDR detected in that
\* run and HTTP from anywhere, and the load balancer's group carries HTTP from
\* anywhere, also when the group is one an earlier run left behind.
C12_GroupRulesAsRequested ==
    /\ instance_id # None =>
          /\ secGroups[EC2_SG_NAME].GroupId = ec2_sg_id
          /\ secGroups[EC2_SG_NAME].IpPermissions =
                << TcpFrom(22, my_ip_cidr), TcpFrom(80, AnyCidr) >>
    /\ alb_dns # None =>
          /\ secGroups[ALB_SG_NAME].GroupId = alb_sg_id
          /\ secGroups[ALB_SG_NAME].IpPermissions = << TcpFrom(80, AnyCidr) >>

====
